---- MODULE Spec2Model ----
(***************************************************************************)
(* VirtualPageAllocator (tcmalloc/virtual_page_allocator.{h,cc}): a ring   *)
(* buffer of free page indices, a packed 64-bit head/count word, and the   *)
(* Allocate / Free operations, one action per atomic step of each thread.  *)
(*                                                                         *)
(* The machine words are scaled: the source has 2^24 slots, 32-bit slot    *)
(* words (index in bits 0..23, reserved bits 24..30, "allocated" flag in   *)
(* bit 31) and a 64-bit word of two 32-bit halves.  Here a slot index has  *)
(* SlotBits bits, a slot word has HalfBits = SlotBits + 2 bits (the index, *)
(* one reserved bit, the flag in the top bit) and the packed word has two  *)
(* halves of HalfBits bits.  All arithmetic wraps at the scaled widths.    *)
(***************************************************************************)
EXTENDS Integers, FiniteSets, Sequences, Bags, TLC

\* ------------------------------------------------------------------ bounds
\* log2 of the number of ring slots (24 in the source)
SlotBits == 1
\* number of threads calling into the allocator
NumThreads == 2
\* total number of Allocate/Free calls the threads start
MaxCalls == 6

\* ------------------------------------------------------- program constants
page_size == 4096

num_buffer_slots == 2 ^ SlotBits

\* width of a slot word and of each half of page_bufferused_ (32 in the source)
HalfBits == SlotBits + 2

\* width of page_bufferused_ (64 in the source)
WordBits == 2 * HalfBits

flag_allocated == 2 ^ (HalfBits - 1)

\* 0x100000000: one unit of the upper half
UpperUnit == 2 ^ HalfBits

\* 0xFFFFFFFF00000000
UpperMask == (2 ^ HalfBits - 1) * UpperUnit

\* 0x00FFFFFF
IndexMask == num_buffer_slots - 1

\* the address mmap returned for the page window
WindowBases == {16 * page_size}

Threads == 1 .. NumThreads
Slots == 0 .. (num_buffer_slots - 1)
Undef == -1

\* ------------------------------------------------------------ bit helpers
RECURSIVE BitAnd(_, _)
BitAnd(a, b) ==
  IF a = 0 \/ b = 0 THEN 0
  ELSE (a % 2) * (b % 2) + 2 * BitAnd(a \div 2, b \div 2)

RECURSIVE BitOr(_, _)
BitOr(a, b) ==
  IF a = 0 THEN b
  ELSE IF b = 0 THEN a
  ELSE (IF a % 2 = 1 \/ b % 2 = 1 THEN 1 ELSE 0) + 2 * BitOr(a \div 2, b \div 2)

\* bufferused >> 32
UpperHalf(w) == w \div UpperUnit

\* static_cast<std::uint32_t>(bufferused)
LowerHalf(w) == w % UpperUnit

\* ------------------------------------------------------------------ state
VARIABLES
  pages_,             \* base address of the page window
  free_page_buffer_,  \* the ring: slot -> slot word
  page_bufferused_,   \* packed word: first used index (low), count (high)
  accessible,         \* page indices of the window mapped read+write
  pc,                 \* each thread's position
  bufferused,         \* local of Allocate and Free
  buffer_index,       \* local of Allocate and Free
  page_index,         \* local of Allocate and Free
  page,               \* the argument of Free
  protect_rc,         \* what mprotect returned to the Free in progress ("none": not called)
  held,               \* per thread: the bag of addresses returned and not yet freed
  nalloc,             \* per thread: Allocate calls started
  nfree,              \* per thread: Free calls started
  law                 \* progress of a single-threaded Allocate; Free; Allocate run

vars == <<pages_, free_page_buffer_, page_bufferused_, accessible, pc, bufferused,
          buffer_index, page_index, page, protect_rc, held, nalloc, nfree, law>>

locals == <<bufferused, buffer_index, page_index, page, protect_rc>>


\* --------------------------------------------------------- pure functions
\* mutant: the shift dropped, the whole word is compared with zero
CrashIfWordIsZero(w) == w = 0

\* true when std::terminate() is called
CrashIfNoFreePagesLeft(w) == UpperHalf(w) = 0

\* mutant: the incremented head masked with 0xFFFFFFFF instead of 0x00FFFFFF,
\* so that it does not wrap at num_buffer_slots
MarkPageAllocatedNoWrap(old_bufferused) ==
  BitOr(BitAnd((old_bufferused - UpperUnit) % (2 ^ WordBits), UpperMask),
        BitAnd((old_bufferused + 1) % (2 ^ WordBits), UpperUnit - 1))

\* mutant: 1 subtracted instead of 0x100000000
MarkPageAllocatedLowDecrement(old_bufferused) ==
  BitOr(BitAnd((old_bufferused - 1) % (2 ^ WordBits), UpperMask),
        BitAnd((old_bufferused + 1) % (2 ^ WordBits), IndexMask))

MarkPageAllocated(old_bufferused) ==
  BitOr(BitAnd((old_bufferused - UpperUnit) % (2 ^ WordBits), UpperMask),
        BitAnd((old_bufferused + 1) % (2 ^ WordBits), IndexMask))

\* the condition of the do-while in Allocate, as the compiler parses it:
\* page_index & (flag_allocated != 0)
SlotLoopCondition(w) ==
  BitAnd(w, IF flag_allocated # 0 THEN 1 ELSE 0) # 0

\* page_index | flag_allocated
PoisonWord(w) == BitOr(w, flag_allocated)

\* pages_ + page_index * page_size
PageAddress(base, idx) == base + idx * page_size

\* (page - pages_) / page_size, converted to std::uint32_t
PageIndexOf(base, addr) == ((addr - base) \div page_size) % UpperUnit

\* (bufferused << 32 + bufferused) % num_buffer_slots, parsed as
\* bufferused << (32 + bufferused).  A shift by the word's width or more is
\* undefined: any slot index may come out.  A defined shift moves the word
\* up by at least half its width, so its low index bits are zero.
TailIndexOutcomes(w) ==
  IF HalfBits + w < WordBits
  THEN {((w * 2 ^ (HalfBits + w)) % (2 ^ WordBits)) % num_buffer_slots}
  ELSE Slots

\* fetch_add(0x100000000)
FetchAddUpper(w) == (w + UpperUnit) % (2 ^ WordBits)

\* what mprotect may return: 0 ("ok"), or -1 when the kernel refuses, as with
\* ENOMEM ("failed")
MprotectOutcomes == {"ok", "failed"}

\* mutant: mprotect called with PROT_READ | PROT_WRITE
ProtectReadWrite(acc, base, addr) ==
  acc \cup {i \in Slots : PageAddress(base, i) = addr}

\* mprotect(page, page_size, PROT_NONE) on the set of read+write pages
ProtectNone(acc, base, addr) ==
  acc \ {i \in Slots : PageAddress(base, i) = addr}

\* ------------------------------------------------------- derived notions
Terminated == \E t \in Threads : pc[t] = "crashed"
Quiescent == \A t \in Threads : pc[t] = "idle"
RECURSIVE SumOver(_, _)
SumOver(f, S) ==
  IF S = {} THEN 0
  ELSE LET x == CHOOSE y \in S : TRUE IN f[x] + SumOver(f, S \ {x})
TotalCalls == SumOver(nalloc, Threads) + SumOver(nfree, Threads)
FreeCount == UpperHalf(page_bufferused_)
HeadIndex == LowerHalf(page_bufferused_)
InWindow(addr) == \E i \in Slots : addr = PageAddress(pages_, i)
NoLaw == [stage |-> 0, who |-> 0, fresh |-> FALSE, count0 |-> 0, a |-> Undef, b |-> Undef]

\* ---------------------------------------------------------------- Init
\* VirtualPageAllocator::VirtualPageAllocator()
Init ==
  /\ pages_ \in WindowBases
  /\ free_page_buffer_ = [i \in Slots |-> i]
  /\ page_bufferused_ = num_buffer_slots * UpperUnit
  /\ accessible = {}
  /\ pc = [t \in Threads |-> "idle"]
  /\ bufferused = [t \in Threads |-> Undef]
  /\ buffer_index = [t \in Threads |-> Undef]
  /\ page_index = [t \in Threads |-> Undef]
  /\ page = [t \in Threads |-> Undef]
  /\ protect_rc = [t \in Threads |-> "none"]
  /\ held = [t \in Threads |-> EmptyBag]
  /\ nalloc = [t \in Threads |-> 0]
  /\ nfree = [t \in Threads |-> 0]
  /\ law = NoLaw

\* ------------------------------------------------------------- Allocate
\* a thread calls Allocate()
AllocCall(t) ==
  /\ ~Terminated
  /\ pc[t] = "idle"
  /\ TotalCalls < MaxCalls
  /\ pc' = [pc EXCEPT ![t] = "a_load"]
  /\ nalloc' = [nalloc EXCEPT ![t] = @ + 1]
  /\ law' = IF ~Quiescent THEN NoLaw
            ELSE IF law.stage = 4 /\ law.who = t THEN [law EXCEPT !.stage = 5]
            ELSE [stage |-> 1, who |-> t, fresh |-> (TotalCalls = 0),
                  count0 |-> FreeCount, a |-> Undef, b |-> Undef]
  /\ UNCHANGED <<pages_, free_page_buffer_, page_bufferused_, accessible, locals,
                 held, nfree>>

\* bufferused = page_bufferused_.load(); CrashIfNoFreePagesLeft(bufferused)
AllocLoad(t) ==
  /\ ~Terminated
  /\ pc[t] = "a_load"
  /\ bufferused' = [bufferused EXCEPT ![t] = page_bufferused_]
  /\ pc' = [pc EXCEPT ![t] =
              IF CrashIfNoFreePagesLeft(page_bufferused_) THEN "crashed" ELSE "a_cas"]
  /\ UNCHANGED <<pages_, free_page_buffer_, page_bufferused_, accessible,
                 buffer_index, page_index, page, held, protect_rc, nalloc, nfree, law>>

\* one round of the compare_exchange_weak loop.  A spurious failure reloads
\* the value bufferused already holds and passes the crash test again: it
\* leaves the state as it is, so it is a stuttering step.
AllocCAS(t) ==
  /\ ~Terminated
  /\ pc[t] = "a_cas"
  /\ IF page_bufferused_ = bufferused[t]
     THEN /\ page_bufferused_' = MarkPageAllocated(bufferused[t])
          /\ buffer_index' = [buffer_index EXCEPT ![t] = LowerHalf(bufferused[t])]
          /\ pc' = [pc EXCEPT ![t] = "a_read"]
          /\ UNCHANGED bufferused
     ELSE /\ bufferused' = [bufferused EXCEPT ![t] = page_bufferused_]
          /\ pc' = [pc EXCEPT ![t] =
                      IF CrashIfNoFreePagesLeft(page_bufferused_)
                      THEN "crashed" ELSE "a_cas"]
          /\ UNCHANGED <<page_bufferused_, buffer_index>>
  /\ UNCHANGED <<pages_, free_page_buffer_, accessible, page_index, page, held,
                 protect_rc, nalloc, nfree, law>>

\* one round of the do-while: load the slot, test the loop condition
AllocRead(t) ==
  /\ ~Terminated
  /\ pc[t] = "a_read"
  /\ page_index' = [page_index EXCEPT ![t] = free_page_buffer_[buffer_index[t]]]
  /\ pc' = [pc EXCEPT ![t] =
              IF SlotLoopCondition(free_page_buffer_[buffer_index[t]])
              THEN "a_read" ELSE "a_poison"]
  /\ UNCHANGED <<pages_, free_page_buffer_, page_bufferused_, accessible,
                 bufferused, buffer_index, page, held, protect_rc, nalloc, nfree, law>>

\* store page_index | flag_allocated into the slot, compute the address, return
AllocPoison(t) ==
  /\ ~Terminated
  /\ pc[t] = "a_poison"
  /\ free_page_buffer_' =
       [free_page_buffer_ EXCEPT ![buffer_index[t]] = PoisonWord(page_index[t])]
  /\ LET addr == PageAddress(pages_, page_index[t]) IN
       /\ held' = [held EXCEPT ![t] = @ (+) SetToBag({addr})]
       /\ law' = IF law.who = t /\ law.stage = 1
                   THEN [law EXCEPT !.stage = 2, !.a = addr]
                 ELSE IF law.who = t /\ law.stage = 5
                   THEN [law EXCEPT !.stage = 6, !.b = addr]
                 ELSE law
  /\ pc' = [pc EXCEPT ![t] = "idle"]
  /\ bufferused' = [bufferused EXCEPT ![t] = Undef]
  /\ buffer_index' = [buffer_index EXCEPT ![t] = Undef]
  /\ page_index' = [page_index EXCEPT ![t] = Undef]
  /\ UNCHANGED <<pages_, page_bufferused_, accessible, page, protect_rc, nalloc, nfree>>

\* ----------------------------------------------------------------- Free
\* a thread calls Free(addr) with an address it holds
FreeCall(t) ==
  /\ ~Terminated
  /\ pc[t] = "idle"
  /\ TotalCalls < MaxCalls
  /\ \E addr \in BagToSet(held[t]) :
       /\ held' = [held EXCEPT ![t] = @ (-) SetToBag({addr})]
       /\ page' = [page EXCEPT ![t] = addr]
       /\ law' = IF Quiescent /\ law.stage = 2 /\ law.who = t /\ law.a = addr
                 THEN [law EXCEPT !.stage = 3] ELSE NoLaw
  /\ pc' = [pc EXCEPT ![t] = "f_protect"]
  /\ nfree' = [nfree EXCEPT ![t] = @ + 1]
  /\ UNCHANGED <<pages_, free_page_buffer_, page_bufferused_, accessible,
                 bufferused, buffer_index, page_index, protect_rc, nalloc>>

\* mprotect(page, page_size, PROT_NONE), whose result the code does not read;
\* page_index = (page - pages_) / page_size
FreeProtect(t) ==
  /\ ~Terminated
  /\ pc[t] = "f_protect"
  /\ \E rc \in MprotectOutcomes :
       /\ protect_rc' = [protect_rc EXCEPT ![t] = rc]
       /\ accessible' = IF rc = "ok" THEN ProtectNone(accessible, pages_, page[t])
                                  ELSE accessible
  /\ page_index' = [page_index EXCEPT ![t] = PageIndexOf(pages_, page[t])]
  /\ pc' = [pc EXCEPT ![t] = "f_fadd"]
  /\ UNCHANGED <<pages_, free_page_buffer_, page_bufferused_, bufferused,
                 buffer_index, page, held, nalloc, nfree, law>>

\* bufferused = page_bufferused_.fetch_add(0x100000000); compute buffer_index
FreeFetchAdd(t) ==
  /\ ~Terminated
  /\ pc[t] = "f_fadd"
  /\ bufferused' = [bufferused EXCEPT ![t] = page_bufferused_]
  /\ page_bufferused_' = FetchAddUpper(page_bufferused_)
  /\ \E i \in TailIndexOutcomes(page_bufferused_) :
       buffer_index' = [buffer_index EXCEPT ![t] = i]
  /\ pc' = [pc EXCEPT ![t] = "f_publish"]
  /\ UNCHANGED <<pages_, free_page_buffer_, accessible, page_index, page, held,
                 protect_rc, nalloc, nfree, law>>

\* free_page_buffer_[buffer_index].store(page_index); return
FreePublish(t) ==
  /\ ~Terminated
  /\ pc[t] = "f_publish"
  /\ free_page_buffer_' =
       [free_page_buffer_ EXCEPT ![buffer_index[t]] = page_index[t]]
  /\ law' = IF law.who = t /\ law.stage = 3 THEN [law EXCEPT !.stage = 4] ELSE law
  /\ pc' = [pc EXCEPT ![t] = "idle"]
  /\ bufferused' = [bufferused EXCEPT ![t] = Undef]
  /\ buffer_index' = [buffer_index EXCEPT ![t] = Undef]
  /\ page_index' = [page_index EXCEPT ![t] = Undef]
  /\ page' = [page EXCEPT ![t] = Undef]
  /\ protect_rc' = [protect_rc EXCEPT ![t] = "none"]
  /\ UNCHANGED <<pages_, page_bufferused_, accessible, held, nalloc, nfree>>

\* ------------------------------------------------------- specification
Next ==
  \E t \in Threads :
    \/ AllocCall(t)
    \/ AllocLoad(t)
    \/ AllocCAS(t)
    \/ AllocRead(t)
    \/ AllocPoison(t)
    \/ FreeCall(t)
    \/ FreeProtect(t)
    \/ FreeFetchAdd(t)
    \/ FreePublish(t)

Spec == Init /\ [][Next]_vars

\* ------------------------------------------------------ notions for claims
HeldAddrs == UNION {BagToSet(held[t]) : t \in Threads}
HeldCopies(a) == SumOver([t \in Threads |-> CopiesIn(a, held[t])], Threads)
HeldTotal == SumOver([t \in Threads |-> BagCardinality(held[t])], Threads)
FlagClear(w) == BitAnd(w, flag_allocated) = 0

\* Allocate calls whose CAS has committed minus Free calls whose fetch-add has
\* committed: the addresses held, the Allocates past their CAS, and the Frees
\* not yet at their fetch-add
LiveAllocations ==
  HeldTotal + Cardinality({t \in Threads : pc[t] \in {"a_read", "a_poison"}})
            + Cardinality({t \in Threads : pc[t] \in {"f_protect", "f_fadd"}})

\* thread t has loaded a flag-clear page index from its slot, the loop
\* condition sends it round again, and the slot still holds that word
Spinning(t) ==
  /\ pc[t] = "a_read"
  /\ page_index[t] = free_page_buffer_[buffer_index[t]]
  /\ FlagClear(page_index[t])
  /\ SlotLoopCondition(page_index[t])

\* only thread t has called the allocator, and it has only called Allocate
SoleAllocator(t) ==
  /\ SumOver(nfree, Threads) = 0
  /\ \A u \in Threads \ {t} : nalloc[u] = 0

\* ------------------------------------------------------------------ C1
\* C1 (uniqueness): no address is held by two live allocations at once.
Uniqueness == \A a \in HeldAddrs : HeldCopies(a) = 1

\* ------------------------------------------------------------------ C2
\* C2 (accessibility): after any sequence of completed operations the set of
\* read+write pages equals the set of pages held by live allocations.
Accessibility ==
  Quiescent => accessible = {i \in Slots : PageAddress(pages_, i) \in HeldAddrs}

\* ------------------------------------------------------------------ C3
\* C3 (containment): every address Allocate returned is base + i * P for a
\* page index i of the window.
Containment == \A a \in HeldAddrs : InWindow(a)

\* ------------------------------------------------------------------ C4
\* C4 (conservation): the free count in the upper half of page_bufferused_
\* plus the number of live allocations equals the number of pages, and the
\* free count stays within 0 .. N.
Conservation ==
  /\ FreeCount + LiveAllocations = num_buffer_slots
  /\ FreeCount \in 0 .. num_buffer_slots

\* a Free has committed its fetch-add while allocations are live and pages free
ConservationWitness ==
  /\ \E t \in Threads : pc[t] = "f_publish"
  /\ LiveAllocations >= 1
  /\ FreeCount >= 1

\* ------------------------------------------------------------------ C5
\* C5 (single-thread exhaustion): when one thread alone calls Allocate on a
\* fresh allocator, every one of the first N calls returns, the addresses
\* returned are distinct pages of the window, and only the (N+1)-th call
\* terminates the process (and it does not return).
SingleThreadExhaustion ==
  \A t \in Threads : SoleAllocator(t) =>
    /\ ~Spinning(t)
    /\ \A a \in BagToSet(held[t]) : CopiesIn(a, held[t]) = 1 /\ InWindow(a)
    /\ (pc[t] = "crashed" => nalloc[t] = num_buffer_slots + 1)
    /\ (nalloc[t] > num_buffer_slots => pc[t] # "idle")

\* ------------------------------------------------------------------ C6
\* C6 (exhaustion policy): an Allocate terminates the process exactly when the
\* value of page_bufferused_ it observes (by its load or by a failed CAS) has
\* a zero free count; it commits its CAS only on a value with a positive free
\* count; and the terminating step changes neither page_bufferused_ nor the ring.
ExhaustionPolicy ==
  [][\A t \in Threads :
       LET observes == \/ pc[t] = "a_load" /\ pc'[t] # "a_load"
                       \/ pc[t] = "a_cas" /\ bufferused'[t] # bufferused[t]
       IN /\ observes => (pc'[t] = "crashed" <=> UpperHalf(bufferused'[t]) = 0)
          /\ (pc'[t] = "crashed" /\ pc[t] # "crashed") =>
               /\ observes
               /\ UNCHANGED <<page_bufferused_, free_page_buffer_>>
          /\ (pc[t] = "a_cas" /\ pc'[t] = "a_read") => UpperHalf(bufferused[t]) > 0
    ]_vars

\* an Allocate has observed a zero free count and terminated the process
ExhaustionWitness ==
  \E t \in Threads : pc[t] = "crashed" /\ UpperHalf(bufferused[t]) = 0

SlotReadTerminates ==
  [][\A t \in Threads :
       (pc[t] = "a_read" /\ page_index'[t] # page_index[t]
          /\ FlagClear(page_index'[t])) => pc'[t] = "a_poison"
    ]_vars

\* ------------------------------------------------------------------ C9
\* C9 (free/allocate law): run by one thread from a quiescent state with a
\* free page, a = Allocate(); Free(a); b = Allocate() completes (neither
\* Allocate hangs in its slot-read loop), leaves the free count one below its
\* value before the run, and b is a page of the window held by no other live
\* allocation.
FreeAllocateLaw ==
  /\ (law.stage \in {1, 5} /\ law.count0 >= 1) =>
       (~Spinning(law.who) /\ pc[law.who] # "crashed")
  /\ (law.stage = 6 /\ law.count0 >= 1) =>
       /\ FreeCount = law.count0 - 1
       /\ InWindow(law.b)
       /\ HeldCopies(law.b) = 1

\* ------------------------------------------------------------------ C10
\* C10 (recycle after free): on a fresh allocator a1 = Allocate(); Free(a1);
\* a2 = Allocate() returns a2 = a1, and a2 is read+write.
RecycleAfterFree ==
  law.fresh =>
    /\ law.stage \in {1, 5} => ~Spinning(law.who)
    /\ law.stage = 6 =>
         /\ law.b = law.a
         /\ \E i \in accessible : PageAddress(pages_, i) = law.b

\* ------------------------------------------------------------------ C11
\* the pages the threads ask for: those held, those being allocated, and those
\* being freed whose fetch-add has not committed
Demand ==
  LiveAllocations
    + Cardinality({t \in Threads : pc[t] \in {"a_load", "a_cas", "crashed"}})

\* thread t, in the allocating half of its first batch, hangs in the slot-read
\* loop while every other thread has completed at most one batch of one page
\* and holds nothing
HangsInBatchRun(t) ==
  /\ Spinning(t)
  /\ nfree[t] = 0
  /\ \A u \in Threads \ {t} :
       pc[u] = "idle" /\ nalloc[u] = nfree[u] /\ nalloc[u] <= 1

\* C11 (concurrent stability): when threads allocate batches and free them, the
\* demand never exceeding N, no thread terminates the process, no thread hangs,
\* and once every thread has finished with nothing outstanding the free count
\* is N.
ConcurrentStability ==
  /\ Terminated => Demand > num_buffer_slots
  /\ \A t \in Threads : ~HangsInBatchRun(t)
  /\ (Quiescent /\ HeldTotal = 0) => FreeCount = num_buffer_slots

\* ------------------------------------------------------------------ C12
\* C12 (OS failure): after mprotect has reported failure to a Free, the next
\* step of that Free terminates the process; it changes neither
\* page_bufferused_ nor the ring.
OsFailureTerminates ==
  [][\A t \in Threads :
       (protect_rc[t] = "failed" /\ pc'[t] # pc[t]) =>
         /\ pc'[t] = "crashed"
         /\ UNCHANGED <<page_bufferused_, free_page_buffer_>>
    ]_vars

\* the slots between head and tail: R[head .. head + free_count - 1 mod N]
LiveRegion ==
  {(HeadIndex + k) % num_buffer_slots : k \in 0 .. (FreeCount - 1)}

\* C13: page partition at quiescence.  Whenever no Allocate or Free is in
\* progress, every page index in [0, N) is stored in exactly one slot of the
\* live ring region or held by exactly one live allocation: never both, never
\* neither.
PagePartition ==
  Quiescent =>
    \A p \in Slots :
      Cardinality({i \in LiveRegion : free_page_buffer_[i] = p})
        + HeldCopies(PageAddress(pages_, p)) = 1

\* the producers that have committed their fetch_add and not yet stored into
\* slot s
PendingProducers(s) ==
  {p \in Threads : pc[p] = "f_publish" /\ buffer_index[p] = s}

\* C14: slot-flag handshake.  While a Free that has committed its fetch_add has
\* still to store into the slot a consumer has claimed, the consumer does not
\* leave its slot-read loop on a word with the allocated flag set, and the
\* index it leaves with is the one such a producer publishes, never the index
\* left in the slot by an earlier cycle.
SlotFlagHandshake ==
  [][\A c \in Threads :
       (pc[c] = "a_read" /\ PendingProducers(buffer_index[c]) # {}) =>
         /\ ~FlagClear(free_page_buffer_[buffer_index[c]]) => pc'[c] = "a_read"
         /\ pc'[c] = "a_poison" =>
              \E p \in PendingProducers(buffer_index[c]) :
                page_index'[c] = page_index[p]
    ]_vars

\* the consumers that have claimed slot s by their CAS and have not yet
\* poisoned it
ClaimingConsumers(s) ==
  {c \in Threads : pc[c] \in {"a_read", "a_poison"} /\ buffer_index[c] = s}

\* C15: exclusive slot ownership.  Two Free calls in progress never target
\* the same slot, and a publish store never lands on a slot that still holds
\* an unconsumed (flag-clear) free index, whether that index waits in the
\* ring or belongs to a consumer that has claimed the slot and not yet
\* poisoned it.
ExclusiveSlotOwnership ==
  /\ [](\A p, q \in Threads :
          (p # q /\ pc[p] = "f_publish" /\ pc[q] = "f_publish") =>
            buffer_index[p] # buffer_index[q])
  /\ [][\A p \in Threads :
          (pc[p] = "f_publish" /\ pc'[p] = "idle") =>
            /\ ~FlagClear(free_page_buffer_[buffer_index[p]])
            /\ \A c \in ClaimingConsumers(buffer_index[p]) :
                 ~FlagClear(free_page_buffer_[buffer_index[p]])
     ]_vars

\* C16: FIFO recycling.  From the constructed state the k-th allocation in
\* CAS commit order receives page k - 1 for k <= N: while no Free has been
\* called, a consumer that has claimed slot s leaves the slot-read loop with
\* index s, and it does leave it rather than load index s again and again.
FifoRecycling ==
  (\A u \in Threads : nfree[u] = 0) =>
    \A t \in Threads :
      /\ pc[t] = "a_poison" => page_index[t] = buffer_index[t]
      /\ ~Spinning(t)

\* C17: tail slot computation.  For every pre-addition value of H with head in
\* [0, N) and free_count in [0, N), the slot Free is about to store into is
\* (head + free_count) mod N.
TailSlotComputation ==
  [][\A t \in Threads :
       (pc[t] = "f_fadd" /\ pc'[t] = "f_publish"
          /\ HeadIndex < num_buffer_slots /\ FreeCount < num_buffer_slots) =>
         buffer_index'[t] = (HeadIndex + FreeCount) % num_buffer_slots
    ]_vars

\* C18: head/count update on claim.  A successful CAS of Allocate on a value
\* of H with head in [0, N) and free_count in [1, N] installs
\* head' = (head + 1) mod N and free_count' = free_count - 1, the wrap
\* N - 1 -> 0 included, and the slot the consumer goes on to read is the head
\* of the old value; head < N in every reachable state.
HeadCountUpdate ==
  /\ [](HeadIndex < num_buffer_slots)
  /\ [][\A t \in Threads :
          (pc[t] = "a_cas" /\ pc'[t] = "a_read"
             /\ HeadIndex \in Slots /\ FreeCount \in 1 .. num_buffer_slots) =>
            /\ HeadIndex' = (HeadIndex + 1) % num_buffer_slots
            /\ FreeCount' = FreeCount - 1
            /\ buffer_index'[t] = HeadIndex
     ]_vars

\* a consumer has claimed the last slot and its CAS has wrapped head to 0
HeadCountUpdateWitness ==
  \E t \in Threads :
    /\ pc[t] = "a_read"
    /\ buffer_index[t] = num_buffer_slots - 1
    /\ HeadIndex = 0

\* C19: per-slot state machine.  A slot only cycles FREE(p) -> flagged ->
\* FREE(p'): a consumer's poison store writes p | flag over the flag-clear
\* index p it read, a producer's publish store writes a flag-clear index over
\* a flagged word, and so the flag is set only by a poison store and cleared
\* only by a publish store.
SlotStateMachine ==
  [][\A t \in Threads :
       /\ (pc[t] = "a_poison" /\ pc'[t] = "idle") =>
            /\ FlagClear(page_index[t])
            /\ free_page_buffer_[buffer_index[t]] = page_index[t]
            /\ free_page_buffer_'[buffer_index[t]] = PoisonWord(page_index[t])
       /\ (pc[t] = "f_publish" /\ pc'[t] = "idle") =>
            /\ ~FlagClear(free_page_buffer_[buffer_index[t]])
            /\ FlagClear(free_page_buffer_'[buffer_index[t]])
    ]_vars

\* C20: last-page race.  Of the Allocate calls racing for the free pages only
\* as many commit as there are pages: a CAS commits only on the current value
\* of H, whose free count is then positive and goes down by exactly one (never
\* from 0, so the upper field never wraps below zero); a failed CAS leaves H
\* unchanged, and the loser takes the exhaustion path exactly when the value
\* it reloads has free count 0.
LastPageRace ==
  /\ [](FreeCount <= num_buffer_slots)
  /\ [][\A t \in Threads :
          /\ (pc[t] = "a_cas" /\ pc'[t] = "a_read") =>
               /\ bufferused[t] = page_bufferused_
               /\ FreeCount >= 1
               /\ FreeCount' = FreeCount - 1
          /\ (pc[t] = "a_cas" /\ pc'[t] # pc[t] /\ bufferused[t] # page_bufferused_) =>
               /\ page_bufferused_' = page_bufferused_
               /\ pc'[t] = "crashed"
               /\ FreeCount = 0
          /\ (pc[t] = "a_cas" /\ pc'[t] = "a_cas" /\ bufferused'[t] # bufferused[t]) =>
               /\ page_bufferused_' = page_bufferused_
               /\ bufferused'[t] = page_bufferused_
               /\ FreeCount >= 1
     ]_vars

\* two calls have raced for the last page: both loaded H with free count 1,
\* one has committed its CAS, and the other still holds the stale value its
\* CAS is about to fail on
LastPageRaceWitness ==
  \E t, u \in Threads :
    /\ t # u
    /\ pc[t] = "a_cas"
    /\ UpperHalf(bufferused[t]) = 1
    /\ bufferused[t] # page_bufferused_
    /\ pc[u] \in {"a_read", "a_poison"}
    /\ bufferused[u] = bufferused[t]
    /\ FreeCount = 0

\* C21: live ring region at quiescence.  Whenever no Allocate or Free is in
\* progress, the free_count slots from head on hold free_count pairwise
\* distinct page indices, each below N and flag-clear, and every slot outside
\* that region holds a word with the allocated flag set.
LiveRingRegion ==
  Quiescent =>
    /\ FreeCount <= num_buffer_slots
    /\ \A i \in LiveRegion :
         /\ FlagClear(free_page_buffer_[i])
         /\ free_page_buffer_[i] \in Slots
    /\ \A i, j \in LiveRegion :
         i # j => free_page_buffer_[i] # free_page_buffer_[j]
    /\ \A i \in Slots \ LiveRegion : ~FlagClear(free_page_buffer_[i])

====
